---- MODULE Spec2Model ----
(***************************************************************************)
(* git4intel client (src/git4intel/client.py): marking definitions, the    *)
(* per-user policy view (get_id_markings) and molecule traversal           *)
(* (get_molecule) over a document store.                                   *)
(*                                                                         *)
(* A STIX id "type--uuid" is the pair <<type, uuid>>; x.split('--')[0] is   *)
(* IdType(x) and x.split('--')[1] is IdUuid(x).  Uuids are naturals, all    *)
(* distinct across types.  A document is a record with one field per       *)
(* property the client reads; an absent property is NoRef / <<>> / {}.      *)
(***************************************************************************)
EXTENDS Naturals, Sequences, FiniteSets, TLC

VARIABLES store, aliases, day, last, calls

vars == <<store, aliases, day, last, calls>>

---------------------------------------------------------------------------
(* Bounds of the model *)

\* longest part-of chain of the traversal graphs (relationships in a row)
MaxChain == 5
\* most tlp-plus marking definitions created in one behaviour
MaxMarkings == 2
\* last calendar day of a behaviour (days are 0..MaxDay)
MaxDay == 1

---------------------------------------------------------------------------
(* Identifiers *)

IdType(x) == x[1]
IdUuid(x) == x[2]

NoRef == <<"", 0>>

Ident(n) == <<"identity", n>>
Rel(n) == <<"relationship", n>>
Md(n) == <<"marking-definition", n>>

\* self.identity: the system identity
SYS == Ident(1)
\* two individuals and two organisations of the org chart
U1 == Ident(2)
U2 == Ident(3)
O1 == Ident(4)
O2 == Ident(5)
\* an indicator, the data object of the visibility checks
I1 == <<"indicator", 9>>

\* stix2.TLP_WHITE / TLP_GREEN / TLP_AMBER / TLP_RED, a statement marking
TLP_WHITE == Md(41)
TLP_GREEN == Md(42)
TLP_AMBER == Md(43)
TLP_RED == Md(44)
STATEMENT == Md(45)
\* self.pii_marking['id']
PII == Md(46)
\* self.os_group_id
OS_GROUP == <<"grouping", 60>>

\* identities of the traversal chain and the relationships between them
Node(i) == Ident(1000 + i)
Link(i) == Rel(2000 + i)

---------------------------------------------------------------------------
(* Documents *)

Blank ==
  [id |-> NoRef, type |-> "", identity_class |-> "", relationship_type |-> "",
   source_ref |-> NoRef, target_ref |-> NoRef, object_refs |-> <<>>,
   object_marking_refs |-> {}, created_by_ref |-> NoRef,
   definition_type |-> "", tlp_marking_def_ref |-> NoRef,
   distribution_refs |-> <<>>]

Identity(x, class, marks) ==
  [Blank EXCEPT !.id = x, !.type = "identity", !.identity_class = class,
                !.object_marking_refs = marks, !.created_by_ref = SYS]

Relationship(x, rtype, src, tgt) ==
  [Blank EXCEPT !.id = x, !.type = "relationship", !.relationship_type = rtype,
                !.source_ref = src, !.target_ref = tgt, !.created_by_ref = SYS]

Indicator(x, marks) ==
  [Blank EXCEPT !.id = x, !.type = "indicator", !.object_marking_refs = marks,
                !.created_by_ref = SYS]

Marking(x, dtype) ==
  [Blank EXCEPT !.id = x, !.type = "marking-definition",
                !.definition_type = dtype, !.created_by_ref = SYS]

Grouping(x, refs) ==
  [Blank EXCEPT !.id = x, !.type = "grouping", !.object_refs = refs,
                !.created_by_ref = SYS]

Range(s) == {s[i] : i \in DOMAIN s}

Uuids(S) == {IdUuid(x) : x \in S}

---------------------------------------------------------------------------
(* Schema registry (utils.get_schema): a schema name gives the ordered     *)
(* list of the clauses of its bool/should.  A clause names a type and,     *)
(* optionally, a relationship type.                                        *)

Clause(t, rt) == [type |-> t, relationship_type |-> rt]

get_schema(name) ==
  CASE name = "org" ->
         <<Clause("identity", ""), Clause("relationship", "part-of")>>
    [] OTHER -> <<>>

ClauseMatch(c, d) ==
  /\ d.type = c.type
  /\ c.relationship_type = "" \/ d.relationship_type = c.relationship_type

---------------------------------------------------------------------------
(* The document store: index(), exists(), mget()                           *)

\* self.index(index=type, id=uuid, body=obj): create or replace
IndexDoc(st, obj) == {d \in st : d.id # obj.id} \cup {obj}

\* a write taken as stored whatever it reports
store_always(st, obj, result) == [ok |-> TRUE, store |-> IndexDoc(st, obj)]

\* __store_object: the write reports res['result']
store_object(st, obj, result) ==
  IF result \in {"created", "updated"}
  THEN [ok |-> TRUE, store |-> IndexDoc(st, obj)]
  ELSE [ok |-> FALSE, store |-> st]

\* self.exists(index=..., id=...)
Exists(st, x) == \E d \in st : d.id = x

Found(st, x) == CHOOSE d \in st : d.id = x

\* 'intel' is the alias of every index; any other name is one type's index
InIndex(index, d) == index = "intel" \/ d.type = index

---------------------------------------------------------------------------
(* Searches get_molecule issues                                            *)

\* values of the fields query_string "*_ref", "*_refs" looks at
RefValues(d) ==
  ({d.source_ref, d.target_ref, d.created_by_ref, d.tlp_marking_def_ref}
     \cup Range(d.object_refs) \cup d.object_marking_refs
     \cup Range(d.distribution_refs)) \ {NoRef}

\* the hit's own id alone
SourceIds(d) == {d.id}

\* values of hit['_source'] under filter_path id, *_ref, *_refs and
\* _source_excludes created_by_ref, object_marking_refs
SourceValues(d) ==
  ({d.id, d.source_ref, d.target_ref} \cup Range(d.object_refs)) \ {NoRef}

\* one expansion search: id in ids, or a reference into ids; schema filter
RoundHits(scope, ids, clauses) ==
  LET q_ids == Uuids(ids)
  IN {d \in scope :
        /\ \/ IdUuid(d.id) \in q_ids
           \/ Uuids(RefValues(d)) \cap q_ids # {}
        /\ \E c \in clauses : ClauseMatch(c, d)}

\* the caller's extra query: the set of types it matches, {} for none
QueryMatch(query, d) == query = {} \/ d.type \in query

\* the final search of objs mode; an empty should-list restricts nothing
FinalHits(scope, ids, clauses, query) ==
  {d \in scope :
     /\ ids = {} \/ IdUuid(d.id) \in Uuids(ids)
     /\ QueryMatch(query, d)
     /\ \E c \in clauses : ClauseMatch(c, d)}

---------------------------------------------------------------------------
(* get_molecule: the traversal loop                                        *)

\* the round-failure cap: "if failed > 3: return False"
MaxFailed == 3

\* schemas of one round: the schema name as one criterion (pivot), or its
\* clauses one by one
RoundSchemas(schema_name, pivot) ==
  IF pivot
  THEN <<Range(get_schema(schema_name))>>
  ELSE [i \in DOMAIN get_schema(schema_name) |-> {get_schema(schema_name)[i]}]

\* "for schema in schemas" of one round, from schema k on.  acc holds
\* check_lst, count, the values appended to ids, and the searches issued.
RECURSIVE ClauseLoop(_, _, _, _, _, _)
ClauseLoop(scope, ids, schemas, pivot, k, acc) ==
  IF k > Len(schemas) THEN acc
  ELSE IF /\ ~pivot
          /\ acc.count + 1 \in DOMAIN acc.check_lst
          /\ acc.check_lst[acc.count + 1]
       THEN ClauseLoop(scope, ids, schemas, pivot, k + 1, acc)
  ELSE LET hits == RoundHits(scope, ids, schemas[k])
           res == hits # {}
           lst == IF pivot THEN acc.check_lst
                  ELSE IF acc.count + 1 \in DOMAIN acc.check_lst
                       THEN [acc.check_lst EXCEPT ![acc.count + 1] = res]
                       ELSE Append(acc.check_lst, res)
       IN ClauseLoop(scope, ids, schemas, pivot, k + 1,
            [check_lst |-> lst,
             count |-> IF pivot THEN acc.count ELSE acc.count + 1,
             found |-> acc.found \cup UNION {SourceValues(d) : d \in hits},
             searched |-> acc.searched \cup {k}])

\* the fixpoint test of a round: "if new_len == old_len"
Stable(new_len, old_len) == new_len = old_len

\* a budget test that lets one more growing round pass
ExceededLate(failed) == failed > MaxFailed + 1

\* the budget test after a growing round: "if failed > 3"
Exceeded(failed) == failed > MaxFailed

\* "while True" from one round on.  ids is the set of values of the list,
\* old_len its length; log is the sequence of the rounds' searched schemas,
\* lens the number of distinct ids before the first and after every round.
RECURSIVE Rounds(_, _, _, _, _, _, _, _, _)
Rounds(scope, schemas, pivot, ids, old_len, failed, check_lst, log, lens) ==
  LET acc == ClauseLoop(scope, ids, schemas, pivot, 1,
               [check_lst |-> check_lst, count |-> 0, found |-> {},
                searched |-> {}])
      new_ids == ids \cup acc.found
      new_len == Cardinality(new_ids)
      new_log == Append(log, acc.searched)
      new_lens == Append(lens, new_len)
  IN IF Stable(new_len, old_len)
     THEN [done |-> TRUE, ids |-> new_ids, failed |-> failed, log |-> new_log,
           lens |-> new_lens]
     ELSE IF Exceeded(failed + 1)
     THEN [done |-> FALSE, ids |-> new_ids, failed |-> failed + 1,
           log |-> new_log, lens |-> new_lens]
     ELSE Rounds(scope, schemas, pivot, new_ids, new_len, failed + 1,
                 acc.check_lst, new_log, new_lens)

\* get_molecule past its argument checks, over the documents the searches
\* can see.  ret is FALSE (budget exceeded), the id set, or the objects.
Molecule(scope, stix_ids, schema_name, objs, query, pivot) ==
  LET t == Rounds(scope, RoundSchemas(schema_name, pivot), pivot,
                  Range(stix_ids), Len(stix_ids), 0, <<>>, <<>>,
                  <<Cardinality(Range(stix_ids))>>)
  IN IF ~t.done
     THEN [kind |-> "False", ids |-> {}, objs |-> {}, failed |-> t.failed,
           log |-> t.log, lens |-> t.lens]
     ELSE IF ~objs
     THEN [kind |-> "ids", ids |-> t.ids, objs |-> {}, failed |-> t.failed,
           log |-> t.log, lens |-> t.lens]
     ELSE [kind |-> "objs", ids |-> t.ids,
           objs |-> FinalHits(scope, t.ids, Range(get_schema(schema_name)),
                              query),
           failed |-> t.failed, log |-> t.log, lens |-> t.lens]

---------------------------------------------------------------------------
(* get_objects / get_object without free-text values: mget                 *)

\* FALSE stands for the False the client returns
get_objects(st, user_id, obj_ids) ==
  IF obj_ids = <<>> THEN [ok |-> FALSE, docs |-> <<>>]
  ELSE IF IdType(user_id) # "identity" THEN [ok |-> FALSE, docs |-> <<>>]
  ELSE IF \E i \in DOMAIN obj_ids : ~Exists(st, obj_ids[i])
       THEN [ok |-> FALSE, docs |-> <<>>]
  ELSE [ok |-> TRUE, docs |-> [i \in DOMAIN obj_ids |-> Found(st, obj_ids[i])]]

get_object(st, user_id, obj_id) ==
  LET r == get_objects(st, user_id, <<obj_id>>)
  IN IF ~r.ok \/ Len(r.docs) # 1
     THEN [ok |-> FALSE, doc |-> Blank]
     ELSE [ok |-> TRUE, doc |-> r.docs[1]]

---------------------------------------------------------------------------
(* get_id_markings: the filter of a user's policy view                     *)

\* a clause of the alias filter's bool/should
NoMarkingClause == [kind |-> "unmarked", uuid |-> 0]
MarkingClause(x) == [kind |-> "marking", uuid |-> IdUuid(x)]
PiiClause(x) == [kind |-> "pii", uuid |-> IdUuid(x)]

\* valid_refs starting empty
NoBaseClauses == {}

\* the first entry of valid_refs: must_not exists object_marking_refs
BaseClauses == {NoMarkingClause}

\* one match clause per entry of the open-group list
OsClauses(os_list) == {MarkingClause(os_list[i]) : i \in DOMAIN os_list}

\* the org traversal's query: type identity or type relationship
OrgQuery == {"identity", "relationship"}

\* org_objs: the user's org chart, read with the policy check off
OrgMolecule(st, user_id) ==
  Molecule(st, <<user_id>>, "org", TRUE, OrgQuery, TRUE)

\* org_should: the user's own uuid, and the uuid of every org_objs entry
\* whose type is 'organization'
OrgShould(user_id, org_objs) ==
  {IdUuid(user_id)}
    \cup {IdUuid(org.id) : org \in {o \in org_objs : o.type = "organization"}}

\* one clause per org_objs entry: that id, carrying the PII marking
PiiClauses(org_objs) == {PiiClause(org.id) : org \in org_objs}

\* the marking-definition search matching every distribution marking
AllMarkingHits(st, org_should) ==
  {d \in st : InIndex("marking-definition", d) /\ d.distribution_refs # <<>>}

\* the marking-definition search: distribution_refs matching org_should
MarkingHits(st, org_should) ==
  {d \in st :
     /\ InIndex("marking-definition", d)
     /\ Uuids(Range(d.distribution_refs)) \cap org_should # {}}

DistClauses(st, org_should) ==
  {MarkingClause(d.id) : d \in MarkingHits(st, org_should)}

\* valid_refs, as the set of the should-clauses
ValidRefs(st, user_id, os_list, org_objs) ==
  BaseClauses \cup OsClauses(os_list) \cup PiiClauses(org_objs)
    \cup DistClauses(st, OrgShould(user_id, org_objs))

\* does a document satisfy one clause of a view's filter; a match on the
\* uuid part of an id holds for the field values that carry that uuid
ClauseHolds(c, d) ==
  CASE c.kind = "unmarked" -> d.object_marking_refs = {}
    [] c.kind = "marking" -> c.uuid \in Uuids(d.object_marking_refs)
    [] c.kind = "pii" -> /\ IdUuid(d.id) = c.uuid
                         /\ IdUuid(PII) \in Uuids(d.object_marking_refs)
    [] OTHER -> FALSE

\* bool/should of the filter
Visible(filter, d) == \E c \in filter : ClauseHolds(c, d)

\* md_time_index: the alias root names user and index, the date the day
AliasName(user_id, index_alias, date) ==
  [user |-> user_id, index |-> index_alias, date |-> date]

SameRoot(name, user_id, index_alias) ==
  name.user = user_id /\ name.index = index_alias

\* the deletion removing nothing
KeepAliases(al, user_id, index_alias) == al

\* indices.delete_alias(index='_all', name=[md_alias_root + '*'])
DeleteAliases(al, user_id, index_alias) ==
  {a \in al : ~SameRoot(a.name, user_id, index_alias)}

\* the creation leaving the aliases as they are
PutNothing(al, name, index_alias, filter) == al

\* indices.put_alias: create, or replace the alias of that name
PutAlias(al, name, index_alias, filter) ==
  {a \in al : a.name # name}
    \cup {[name |-> name, index |-> index_alias, filter |-> filter]}

\* the lookup never finding the alias
NeverExists(al, name) == FALSE

\* self.indices.exists_alias(name=md_alias_name)
AliasExists(al, name) == \E a \in al : a.name = name

\* the org-chart test passing every outcome
AlwaysResolved(org) == FALSE

\* "if not org_objs: return False": the traversal failed or found nothing
OrgUnresolved(org) == org.kind = "False" \/ org.objs = {}

\* the whole call.  ret is "alias" (name returned), "False", or "raise"
\* (the open-group object cannot be read: False['object_refs']).  steps
\* are the requests issued after the alias lookup, removed the aliases the
\* deletion took away.
get_id_markings(st, al, today, user_id, index_alias) ==
  LET name == AliasName(user_id, index_alias, today)
      al1 == DeleteAliases(al, user_id, index_alias)
      os_group == get_object(st, SYS, OS_GROUP)
      org == OrgMolecule(st, user_id)
  IN IF AliasExists(al, name)
     THEN [ret |-> "alias", name |-> name, aliases |-> al, built |-> FALSE,
           steps |-> {}, removed |-> {}]
     ELSE IF ~os_group.ok
     THEN [ret |-> "raise", name |-> name, aliases |-> al1, built |-> FALSE,
           steps |-> {"delete_alias"}, removed |-> al \ al1]
     ELSE IF OrgUnresolved(org)
     THEN [ret |-> "False", name |-> name, aliases |-> al1, built |-> FALSE,
           steps |-> {"delete_alias", "get_molecule"}, removed |-> al \ al1]
     ELSE [ret |-> "alias", name |-> name,
           aliases |-> PutAlias(al1, name, index_alias,
                         ValidRefs(st, user_id, os_group.doc.object_refs,
                                   org.objs)),
           built |-> TRUE,
           steps |-> {"delete_alias", "get_molecule", "search", "put_alias"},
           removed |-> al \ al1]

\* an org traversal that goes through the policy check
OrgMdOn == TRUE

\* _md of the org traversal of get_id_markings: "_md=False"
OrgMd == FALSE

\* _md of the marking-definition search of get_id_markings: "_md=False"
MarkingMd == FALSE

\* levels of nested get_id_markings calls that are followed
MaxDepth == 3

\* the get_id_markings calls entered during one call, itself included: a
\* search with _md on enters get_id_markings for its index before it
\* queries, and the alias of the outer call is not yet put by then
RECURSIVE Entered(_, _, _, _, _, _)
Entered(st, al, today, user_id, index_alias, depth) ==
  IF AliasExists(al, AliasName(user_id, index_alias, today)) \/ depth = 0
  THEN 1
  ELSE IF ~get_object(st, SYS, OS_GROUP).ok THEN 1
  ELSE LET al1 == DeleteAliases(al, user_id, index_alias)
       IN 1 + (IF OrgMd
               THEN Entered(st, al1, today, user_id, "intel", depth - 1)
               ELSE 0)
            + (IF MarkingMd /\ ~OrgUnresolved(OrgMolecule(st, user_id))
               THEN Entered(st, al1, today, user_id, "marking-definition",
                            depth - 1)
               ELSE 0)

\* the searches of a traversal: one per clause searched in a round, and the
\* final search of objs mode
RECURSIVE Searches(_, _)
Searches(log, kind) ==
  IF log = <<>> THEN (IF kind = "objs" THEN 1 ELSE 0)
  ELSE Cardinality(log[1]) + Searches(Tail(log), kind)

\* the requests one get_id_markings call sends to the store: exists_alias;
\* delete_alias and the mget of the open-group object; the searches of the
\* org traversal; the marking-definition search, cat.aliases and put_alias
Requests(st, al, today, user_id, index_alias) ==
  IF AliasExists(al, AliasName(user_id, index_alias, today)) THEN 1
  ELSE IF ~get_object(st, SYS, OS_GROUP).ok THEN 3
  ELSE CHOOSE n \in {IF OrgUnresolved(org)
                      THEN 3 + Searches(org.log, org.kind)
                      ELSE 3 + Searches(org.log, org.kind) + 3 :
                        org \in {OrgMolecule(st, user_id)}} : TRUE

\* the filter of the alias of that name
FilterOf(al, name) == (CHOOSE a \in al : a.name = name).filter

---------------------------------------------------------------------------
(* set_tlpplus and set_new_osdm                                            *)

\* str(ref_list): the list's text, one decimal digit per identity (the
\* identities of distribution lists have uuids below 10)
RECURSIVE StrOfList(_)
StrOfList(l) ==
  IF l = <<>> THEN 0
  ELSE 10 * StrOfList(SubSeq(l, 1, Len(l) - 1)) + IdUuid(l[Len(l)])

\* utils.get_deterministic_uuid(prefix, seed): one uuid per seed
get_deterministic_uuid(prefix, seed) == <<prefix, 100000 + seed>>

\* md_id: derived from ref_list, the copy of the list as it was handed in
MdId(tlp_marking_def_ref, distribution_refs) ==
  get_deterministic_uuid("marking-definition", StrOfList(distribution_refs))

\* distribution_refs of the TLPPlusMarking that is stored: ref_list
StoredRefs(tlp_marking_def_ref, distribution_refs) == distribution_refs

\* new_md, serialized
NewMd(user_id, tlp_marking_def_ref, distribution_refs) ==
  [Blank EXCEPT
     !.id = MdId(tlp_marking_def_ref, distribution_refs),
     !.type = "marking-definition",
     !.definition_type = "tlp-plus",
     !.tlp_marking_def_ref = tlp_marking_def_ref,
     !.distribution_refs = StoredRefs(tlp_marking_def_ref, distribution_refs),
     !.created_by_ref = user_id]

\* the existence test always failing
NeverStored(st, md_id) == FALSE

\* "if self.exists(...): return md_id"
AlreadyStored(st, md_id) == Exists(st, md_id)

\* the argument checks passing everything
NeverRejected(user_id, tlp_marking_def_ref, is_list) == FALSE

\* the argument checks: user id of type identity, a list, TLP AMBER or RED
Rejected(user_id, tlp_marking_def_ref, is_list) ==
  \/ IdType(user_id) # "identity"
  \/ ~is_list
  \/ tlp_marking_def_ref \notin {TLP_AMBER, TLP_RED}

\* the whole call.  ret: "False", "id" (md_id alone, the marking existed)
\* or "created" (md_id and md_json).  caller_list is the caller's list
\* after the call: distribution_refs.append(...) acts on the list handed in.
set_tlpplus(st, user_id, tlp_marking_def_ref, distribution_refs, is_list, result) ==
  LET md_id == MdId(tlp_marking_def_ref, distribution_refs)
      md_json == NewMd(user_id, tlp_marking_def_ref, distribution_refs)
      w == store_object(st, md_json, result)
      appended == Append(distribution_refs, tlp_marking_def_ref)
  IN IF Rejected(user_id, tlp_marking_def_ref, is_list)
     THEN [ret |-> "False", md_id |-> NoRef, store |-> st,
           caller_list |-> distribution_refs, wrote |-> FALSE]
     ELSE IF AlreadyStored(st, md_id)
     THEN [ret |-> "id", md_id |-> md_id, store |-> st,
           caller_list |-> appended, wrote |-> FALSE]
     ELSE IF ~w.ok
     THEN [ret |-> "False", md_id |-> NoRef, store |-> st,
           caller_list |-> appended, wrote |-> TRUE]
     ELSE [ret |-> "created", md_id |-> md_id, store |-> w.store,
           caller_list |-> appended, wrote |-> TRUE]

\* the membership test never finding the id
NeverListed(os_group, stix_id) == FALSE

\* "if stix_id in os_group['object_refs']: return True"
AlreadyListed(os_group, stix_id) == stix_id \in Range(os_group.object_refs)

\* set_new_osdm: ret "True", "False" (the write failed) or "raise" (the
\* open-group object could not be read)
set_new_osdm(st, user_id, stix_id, result) ==
  LET os_group == get_object(st, user_id, OS_GROUP)
      new_group == [os_group.doc EXCEPT !.object_refs = Append(@, stix_id)]
      w == store_object(st, new_group, result)
  IN IF ~os_group.ok
     THEN [ret |-> "raise", store |-> st, wrote |-> FALSE]
     ELSE IF AlreadyListed(os_group.doc, stix_id)
     THEN [ret |-> "True", store |-> st, wrote |-> FALSE]
     ELSE [ret |-> IF w.ok THEN "True" ELSE "False", store |-> w.store,
           wrote |-> TRUE]

\* the outcome of a write: res['result']
WriteResult(st, obj, rejected) ==
  IF rejected THEN "noop"
  ELSE IF Exists(st, obj.id) THEN "updated" ELSE "created"

---------------------------------------------------------------------------
(* State after construction and store_core_data                            *)

CoreData ==
  {Identity(SYS, "system", {}),
   Marking(TLP_WHITE, "tlp"), Marking(TLP_GREEN, "tlp"),
   Marking(TLP_AMBER, "tlp"), Marking(TLP_RED, "tlp"),
   Marking(STATEMENT, "statement"), Marking(PII, "statement"),
   Grouping(OS_GROUP, <<TLP_WHITE, TLP_GREEN>>)}

\* the identities of the org chart
OrgIdentities ==
  {Identity(U1, "individual", {}), Identity(U2, "individual", {}),
   Identity(O1, "organization", {}), Identity(O2, "organization", {})}

\* the identities of the traversal chain
ChainIdentities == {Identity(Node(i), "organization", {}) : i \in 0..MaxChain}

\* two neighbours of Node(1): OUTSIDER over a relationship the org schema
\* leaves out, HIDDEN over a part-of relationship marked TLP RED
OUTSIDER == Ident(7)
HIDDEN == Ident(8)

ChainNeighbours ==
  {Identity(OUTSIDER, "organization", {}), Identity(HIDDEN, "organization", {}),
   Relationship(Rel(31), "targets", Node(1), OUTSIDER),
   [Relationship(Rel(32), "part-of", Node(1), HIDDEN)
      EXCEPT !.object_marking_refs = {TLP_RED}]}

NoCall == [op |-> "none"]

\* the callers of overlapping get_id_markings calls, and a caller at rest
Callers == {"a", "b"}

Idle ==
  [pc |-> "idle", user_id |-> NoRef, index |-> "",
   name |-> AliasName(NoRef, "", 0), missed |-> FALSE, filter |-> {},
   ret |-> "", stix_id |-> NoRef, os_group |-> Blank]

Init ==
  /\ store = CoreData \cup OrgIdentities
  /\ aliases = {}
  /\ day = 0
  /\ last = NoCall
  /\ calls = [p \in Callers |-> Idle]

InitMolecule ==
  /\ store = CoreData \cup {Identity(U1, "individual", {})}
               \cup ChainIdentities \cup ChainNeighbours
  /\ aliases = {}
  /\ day = 0
  /\ last = NoCall
  /\ calls = [p \in Callers |-> Idle]

---------------------------------------------------------------------------
(* Operations *)

\* store_objects on a list: in order, stopping at the first rejected write
\* (rej is the position of the write the store rejects, 0 for none)
RECURSIVE StoreList(_, _, _, _)
StoreList(st, objects, k, rej) ==
  IF k > Len(objects) THEN [ok |-> TRUE, store |-> st]
  ELSE LET w == store_object(st, objects[k],
                             WriteResult(st, objects[k], k = rej))
       IN IF ~w.ok THEN [ok |-> FALSE, store |-> w.store]
          ELSE StoreList(w.store, objects, k + 1, rej)

StoreObjects(objects, rej) ==
  \E r \in {StoreList(store, objects, 1, rej)} :
     /\ store' = r.store
     /\ last' = [op |-> "store_objects", objects |-> objects, rej |-> rej,
                 ret |-> r.ok]
     /\ UNCHANGED <<aliases, day, calls>>

SetTlpplus(user_id, tlp_marking_def_ref, distribution_refs, is_list, rejected) ==
  \E r \in {set_tlpplus(store, user_id, tlp_marking_def_ref,
                      distribution_refs, is_list,
                      WriteResult(store,
                                  NewMd(user_id, tlp_marking_def_ref,
                                        distribution_refs),
                                  rejected))} :
     /\ store' = r.store
     /\ last' = [op |-> "set_tlpplus", user_id |-> user_id,
                 tlp |-> tlp_marking_def_ref, refs |-> distribution_refs,
                 is_list |-> is_list, ret |-> r.ret, md_id |-> r.md_id,
                 caller_list |-> r.caller_list, wrote |-> r.wrote]
     /\ UNCHANGED <<aliases, day, calls>>

SetNewOsdm(user_id, stix_id, rejected) ==
  \E r \in {set_new_osdm(store, user_id, stix_id,
                       IF rejected THEN "noop" ELSE "updated")} :
     /\ store' = r.store
     /\ last' = [op |-> "set_new_osdm", user_id |-> user_id,
                 stix_id |-> stix_id, ret |-> r.ret, wrote |-> r.wrote]
     /\ UNCHANGED <<aliases, day, calls>>

GetIdMarkings(user_id, index_alias) ==
  \E r \in {get_id_markings(store, aliases, day, user_id, index_alias)} :
  \E n \in {Entered(store, aliases, day, user_id, index_alias, MaxDepth)} :
  \E q \in {Requests(store, aliases, day, user_id, index_alias)} :
     /\ aliases' = r.aliases
     /\ last' = [op |-> "get_id_markings", user_id |-> user_id,
                 index |-> index_alias, ret |-> r.ret, name |-> r.name,
                 built |-> r.built, steps |-> r.steps, removed |-> r.removed,
                 entered |-> n, requests |-> q]
     /\ UNCHANGED <<store, day, calls>>

\* search's index scope: the user's view when _md, else the 'intel' alias
SearchScope(st, al, name, md) ==
  IF md
  THEN {d \in st : InIndex("intel", d) /\ Visible(FilterOf(al, name), d)}
  ELSE {d \in st : InIndex("intel", d)}

\* the schema-name check passing every value
AnySchemaName(is_str) == FALSE

\* "if not isinstance(schema_name, str): return False"
BadSchemaName(is_str) == ~is_str

\* get_molecule, its searches resolving the view through get_id_markings
\* (g is that call's outcome); a search through a view that was not
\* resolved raises
molecule_call(st, g, stix_ids, schema_name, is_str, objs, query, pivot, md) ==
  IF BadSchemaName(is_str)
  THEN [kind |-> "False", ids |-> {}, objs |-> {}, failed |-> 0, log |-> <<>>,
        lens |-> <<>>]
  ELSE IF md /\ g.ret # "alias"
  THEN [kind |-> "raise", ids |-> {}, objs |-> {}, failed |-> 0, log |-> <<>>,
        lens |-> <<>>]
  ELSE Molecule(SearchScope(st, g.aliases, g.name, md), stix_ids, schema_name,
                objs, query, pivot)

\* view_call: the searches of the call went through get_id_markings
GetMolecule(user_id, stix_ids, schema_name, is_str, objs, query, pivot, md) ==
  \E g \in {IF md /\ ~BadSchemaName(is_str)
              THEN get_id_markings(store, aliases, day, user_id, "intel")
              ELSE [ret |-> "none", name |-> AliasName(user_id, "intel", day),
                    aliases |-> aliases, built |-> FALSE, steps |-> {},
                    removed |-> {}]} :
  \E m \in {molecule_call(store, g, stix_ids, schema_name, is_str, objs, query,
                          pivot, md)} :
     /\ aliases' = g.aliases
     /\ last' = [op |-> "get_molecule", user_id |-> user_id,
                 stix_ids |-> stix_ids, schema_name |-> schema_name,
                 is_str |-> is_str, want_objs |-> objs, query |-> query,
                 pivot |-> pivot,
                 md |-> md, view_call |-> g.ret # "none",
                 kind |-> m.kind, ids |-> m.ids, objs |-> m.objs,
                 failed |-> m.failed, log |-> m.log, lens |-> m.lens]
     /\ UNCHANGED <<store, day, calls>>

\* search without schema on 'intel'.  g is the outcome of get_id_markings
\* when _md is on: kwargs['index'] is whatever it returned, the name or
\* False, and super().search is called with it; a query on the index scope
\* False finds no such index and raises, as does a view call that raised
search(g, md) ==
  IF ~md THEN [scope |-> "intel", issued |-> TRUE, ret |-> "hits"]
  ELSE IF g.ret = "alias" THEN [scope |-> "view", issued |-> TRUE, ret |-> "hits"]
  ELSE IF g.ret = "False" THEN [scope |-> "False", issued |-> TRUE, ret |-> "raise"]
  ELSE [scope |-> "none", issued |-> FALSE, ret |-> "raise"]

Search(user_id, md) ==
  \E g \in {IF md
              THEN get_id_markings(store, aliases, day, user_id, "intel")
              ELSE [ret |-> "none", name |-> AliasName(user_id, "intel", day),
                    aliases |-> aliases, built |-> FALSE, steps |-> {},
                    removed |-> {}]} :
  \E r \in {search(g, md)} :
     /\ aliases' = g.aliases
     /\ last' = [op |-> "search", user_id |-> user_id, md |-> md,
                 view |-> g.ret, name |-> g.name, scope |-> r.scope,
                 issued |-> r.issued, ret |-> r.ret]
     /\ UNCHANGED <<store, day, calls>>

GetObjects(user_id, obj_ids) ==
  \E r \in {get_objects(store, user_id, obj_ids)} :
     /\ last' = [op |-> "get_objects", user_id |-> user_id,
                 obj_ids |-> obj_ids, ok |-> r.ok, docs |-> r.docs]
     /\ UNCHANGED <<store, aliases, day, calls>>

\* get_id_markings of caller p, request by request.  The call starts with
\* the alias lookup: found, it returns the name; missed, it goes on.
LookupStep(p, user_id, index_alias) ==
  /\ calls[p].pc = "idle"
  /\ \E name \in {AliasName(user_id, index_alias, day)} :
       calls' = [calls EXCEPT ![p] =
                   [Idle EXCEPT !.user_id = user_id, !.index = index_alias,
                                !.name = name,
                                !.missed = ~AliasExists(aliases, name),
                                !.pc = IF AliasExists(aliases, name)
                                       THEN "done" ELSE "delete",
                                !.ret = IF AliasExists(aliases, name)
                                        THEN "alias" ELSE ""]]
  /\ UNCHANGED <<store, aliases, day, last>>

\* indices.delete_alias of the caller's root
DeleteStep(p) ==
  /\ calls[p].pc = "delete"
  /\ aliases' = DeleteAliases(aliases, calls[p].user_id, calls[p].index)
  /\ calls' = [calls EXCEPT ![p].pc = "read"]
  /\ UNCHANGED <<store, day, last>>

\* the reads: the open-group list, the org chart, the marking definitions
ReadStep(p) ==
  /\ calls[p].pc = "read"
  /\ \E os_group \in {get_object(store, SYS, OS_GROUP)} :
     \E org \in {OrgMolecule(store, calls[p].user_id)} :
       calls' = [calls EXCEPT ![p] =
                   IF ~os_group.ok
                   THEN [@ EXCEPT !.pc = "done", !.ret = "raise"]
                   ELSE IF OrgUnresolved(org)
                   THEN [@ EXCEPT !.pc = "done", !.ret = "False"]
                   ELSE [@ EXCEPT !.pc = "put",
                                  !.filter =
                                     ValidRefs(store, calls[p].user_id,
                                               os_group.doc.object_refs,
                                               org.objs)]]
  /\ UNCHANGED <<store, aliases, day, last>>

\* indices.put_alias, and the return of the name
PutStep(p) ==
  /\ calls[p].pc = "put"
  /\ aliases' = PutAlias(aliases, calls[p].name, calls[p].index,
                         calls[p].filter)
  /\ calls' = [calls EXCEPT ![p].pc = "done", ![p].ret = "alias"]
  /\ UNCHANGED <<store, day, last>>

\* set_new_osdm of caller p, request by request: the read of the open-group
\* object and the membership test on the copy that was read
OsdmReadStep(p, user_id, stix_id) ==
  /\ calls[p].pc = "idle"
  /\ \E os_group \in {get_object(store, user_id, OS_GROUP)} :
       calls' = [calls EXCEPT ![p] =
                   [Idle EXCEPT
                      !.user_id = user_id, !.stix_id = stix_id,
                      !.os_group = os_group.doc,
                      !.pc = IF ~os_group.ok \/ AlreadyListed(os_group.doc, stix_id)
                             THEN "done" ELSE "write",
                      !.ret = IF ~os_group.ok THEN "raise"
                              ELSE IF AlreadyListed(os_group.doc, stix_id)
                              THEN "True" ELSE ""]]
  /\ UNCHANGED <<store, aliases, day, last>>

\* the append to the copy and __store_object of the whole copy
OsdmWriteStep(p, rejected) ==
  /\ calls[p].pc = "write"
  /\ \E w \in {store_object(store,
                             [calls[p].os_group EXCEPT
                                !.object_refs = Append(@, calls[p].stix_id)],
                             IF rejected THEN "noop" ELSE "updated")} :
       /\ store' = w.store
       /\ calls' = [calls EXCEPT ![p].pc = "done",
                                 ![p].ret = IF w.ok THEN "True" ELSE "False"]
  /\ UNCHANGED <<aliases, day, last>>

NextDay ==
  /\ day < MaxDay
  /\ day' = day + 1
  /\ last' = NoCall
  /\ UNCHANGED <<store, aliases, calls>>

---------------------------------------------------------------------------
(* Inputs of the operations *)

\* part-of relationships of the org chart: U1 in O1, O1 in O2
OrgEdges ==
  {Relationship(Rel(21), "part-of", U1, O1),
   Relationship(Rel(22), "part-of", O1, O2)}

\* an identity that is not in the store
GHOST == Ident(6)

PolicyUsers == {U1, U2, GHOST}

\* distribution lists of the policy behaviours
DistLists == {<<O1, O2>>, <<O1>>, <<U2>>}

TlpPlus(st) == {d \in st : d.definition_type = "tlp-plus"}

RoomForMarking(st, tlp, refs) ==
  \/ Cardinality(TlpPlus(st)) < MaxMarkings
  \/ AlreadyStored(st, MdId(tlp, refs))

\* distribution lists of the marking behaviours: single entries, one set
\* in both orders, and a repeated entry
MarkingLists == {<<U1>>, <<U2>>, <<U1, U2>>, <<U2, U1>>, <<U1, U1>>}

\* calls of set_tlpplus with one argument wrong: a user id that is not an
\* identity, a base classification other than AMBER and RED, not a list
BadCalls ==
  {[user_id |-> I1, tlp |-> TLP_AMBER, is_list |-> TRUE],
   [user_id |-> U1, tlp |-> TLP_GREEN, is_list |-> TRUE],
   [user_id |-> U1, tlp |-> TLP_RED, is_list |-> FALSE]}

\* the links of the traversal chain: Node(i-1) part-of Node(i)
ChainLink(i) == Relationship(Link(i), "part-of", Node(i - 1), Node(i))

SeedLists ==
  {<<Node(0)>>, <<Node(2)>>, <<Node(0), Node(0)>>, <<Link(1)>>, <<>>}

\* batches of get_objects: the part-of relationships are stored or missing
Batches ==
  {<<U1, Rel(21)>>, <<Rel(21), Rel(22)>>, <<O1>>, <<GHOST>>}

\* users of the views over the chain: its first node, a user outside it,
\* and an identity that is not stored
ViewUsers == {Node(0), U1, GHOST}

\* lists of two objects handed to store_objects
EdgeLists ==
  {<<Relationship(Rel(21), "part-of", U1, O1),
     Relationship(Rel(22), "part-of", O1, O2)>>,
   <<Relationship(Rel(22), "part-of", O1, O2),
     Relationship(Rel(21), "part-of", U1, O1)>>}

\* marking ids registered as open: two that are not listed, one that is
OpenIds == {STATEMENT, PII, TLP_WHITE}

\* batches of get_objects over the chain store: the part-of relationship
\* marked TLP RED, alone and with an unmarked identity
MarkedBatches == {<<Rel(32)>>, <<U1, Rel(32)>>, <<Node(0)>>}

\* seeds of the org-chart traversals
OrgSeeds == {<<U1>>, <<O1>>, <<U2>>, <<>>, <<U1, U1, U1>>}

\* the caller's extra filter of the final search: none, or identities only
Queries == {{}, {"identity"}}

---------------------------------------------------------------------------
(* Specifications *)

\* the policy view over a changing org chart, marking set and open group
Next ==
  \/ \E e \in OrgEdges, rej \in 0..1 : StoreObjects(<<e>>, rej)
  \/ \E refs \in DistLists, rejected \in BOOLEAN :
       /\ RoomForMarking(store, TLP_AMBER, refs)
       /\ SetTlpplus(U1, TLP_AMBER, refs, TRUE, rejected)
  \/ \E x \in {STATEMENT, TLP_WHITE}, rejected \in BOOLEAN :
       SetNewOsdm(U1, x, rejected)
  \/ \E u \in PolicyUsers : GetIdMarkings(u, "intel")
  \/ NextDay

Spec == Init /\ [][Next]_vars

\* creation of distribution markings
NextMarking ==
  \/ \E u \in {U1, U2}, tlp \in {TLP_AMBER, TLP_RED}, refs \in MarkingLists,
        rejected \in BOOLEAN :
          /\ RoomForMarking(store, tlp, refs)
          /\ SetTlpplus(u, tlp, refs, TRUE, rejected)
  \/ \E c \in BadCalls, refs \in {<<U1>>, <<U1, U2>>} :
          SetTlpplus(c.user_id, c.tlp, refs, c.is_list, FALSE)

SpecMarking == Init /\ [][NextMarking]_vars

\* traversal over part-of chains
NextMolecule ==
  \/ \E i \in 1..MaxChain, rej \in 0..1 : StoreObjects(<<ChainLink(i)>>, rej)
  \/ \E seeds \in SeedLists, objs \in BOOLEAN, pivot \in BOOLEAN,
        md \in BOOLEAN :
       GetMolecule(U1, seeds, "org", TRUE, objs, {}, pivot, md)
  \/ \E objs \in BOOLEAN, md \in BOOLEAN :
       GetMolecule(U1, <<Node(0)>>, "org", FALSE, objs, {}, TRUE, md)

SpecMolecule == InitMolecule /\ [][NextMolecule]_vars

\* overlapping get_id_markings calls while the org chart is written
NextRace ==
  \/ \E e \in OrgEdges : StoreObjects(<<e>>, 0)
  \/ \E p \in Callers, u \in {U1, U2} : LookupStep(p, u, "intel")
  \/ \E p \in Callers : DeleteStep(p)
  \/ \E p \in Callers : ReadStep(p)
  \/ \E p \in Callers : PutStep(p)

SpecRace == Init /\ [][NextRace]_vars

\* one user's view while the open-group list, one distribution marking and
\* the org chart are written
NextFresh ==
  \/ \E e \in OrgEdges : StoreObjects(<<e>>, 0)
  \/ \E rejected \in BOOLEAN :
       /\ RoomForMarking(store, TLP_AMBER, <<O1>>)
       /\ SetTlpplus(U1, TLP_AMBER, <<O1>>, TRUE, rejected)
  \/ \E x \in {STATEMENT, TLP_WHITE}, rejected \in BOOLEAN :
       SetNewOsdm(U1, x, rejected)
  \/ \E u \in {U1, U2} : GetIdMarkings(u, "intel")
  \/ NextDay

SpecFresh == Init /\ [][NextFresh]_vars

\* overlapping set_new_osdm calls
NextOsdm ==
  \/ \E p \in Callers, u \in {U1, U2}, x \in OpenIds : OsdmReadStep(p, u, x)
  \/ \E p \in Callers, rejected \in BOOLEAN : OsdmWriteStep(p, rejected)

SpecOsdm == Init /\ [][NextOsdm]_vars

\* traversal of the org chart
NextOrg ==
  \/ \E e \in OrgEdges, rej \in 0..1 : StoreObjects(<<e>>, rej)
  \/ \E seeds \in OrgSeeds, objs \in BOOLEAN, pivot \in BOOLEAN,
        md \in BOOLEAN :
       GetMolecule(U1, seeds, "org", TRUE, objs, {}, pivot, md)
  \/ \E seeds \in OrgSeeds, query \in Queries, md \in BOOLEAN :
       GetMolecule(U1, seeds, "org", TRUE, TRUE, query, TRUE, md)
  \/ \E obj_ids \in Batches : GetObjects(U1, obj_ids)
  \/ \E objects \in EdgeLists, rej \in 0..2 : StoreObjects(objects, rej)

SpecOrg == Init /\ [][NextOrg]_vars

\* policy views of a user whose org chart is the part-of chain
NextView ==
  \/ \E i \in 1..MaxChain : StoreObjects(<<ChainLink(i)>>, 0)
  \/ \E u \in ViewUsers : GetIdMarkings(u, "intel")
  \/ \E u \in ViewUsers, md \in BOOLEAN : Search(u, md)
  \/ \E obj_ids \in MarkedBatches : GetObjects(U1, obj_ids)
  \/ NextDay

SpecView == InitMolecule /\ [][NextView]_vars

---------------------------------------------------------------------------
(* Visibility properties of the view get_id_markings builds (Spec)         *)

\* the call just made built a view; the store is as the call read it
BuiltView == last.op = "get_id_markings" /\ last.built

ViewFilter == FilterOf(aliases, last.name)

\* marking sets an object may carry: up to two of the known marking ids
MarkIds(st) ==
  {TLP_WHITE, TLP_GREEN, TLP_AMBER, TLP_RED, STATEMENT, PII}
    \cup {d.id : d \in TlpPlus(st)}

MarkSets(st) == {M \in SUBSET MarkIds(st) : Cardinality(M) <= 2}

\* the open-group list as stored
OsList(st) == Range(Found(st, OS_GROUP).object_refs)

\* u and every organisation above u: part-of edges followed source to target
RECURSIVE Above(_, _)
Above(st, S) ==
  LET up == S \cup {d.target_ref : d \in {r \in st :
                       /\ r.type = "relationship"
                       /\ r.relationship_type = "part-of"
                       /\ r.source_ref \in S}}
  IN IF up = S THEN S ELSE Above(st, up)

\* ids of the objects the 'org' traversal seeded with u returns
OrgChart(st, u) == {o.id : o \in OrgMolecule(st, u).objs}

IsOrganization(st, x) ==
  \E d \in st : d.id = x /\ d.identity_class = "organization"

\* C1: an object marked only with a distribution marking is matched by a
\* user's view only if the marking's list names the user or an
\* organisation above the user; no other user's view matches it.
C1_NoOverExposure ==
  BuiltView =>
    \A m \in TlpPlus(store) :
      Visible(ViewFilter, Indicator(I1, {m.id})) =>
        Range(m.distribution_refs) \cap Above(store, {last.user_id}) # {}

\* U2 belongs to no organisation: its view hides an object marked for O1, O2
C1_Witness ==
  /\ BuiltView
  /\ last.user_id = U2
  /\ \E m \in TlpPlus(store) :
       /\ m.distribution_refs = <<O1, O2>>
       /\ ~Visible(ViewFilter, Indicator(I1, {m.id}))

\* C2: when the user's org chart (the 'org' traversal) holds organisation
\* A, an object marked only with a distribution marking listing A, and not
\* the user, is matched by the user's view.
C2_InheritedDistribution ==
  BuiltView =>
    \A m \in TlpPlus(store) :
      (/\ last.user_id \notin Range(m.distribution_refs)
       /\ \E a \in Range(m.distribution_refs) :
            a \in OrgChart(store, last.user_id) /\ IsOrganization(store, a))
      => Visible(ViewFilter, Indicator(I1, {m.id}))

\* C3: an object without marking references is matched by every view
\* that is built, whatever the open-group list, org chart and markings.
C3_UnmarkedVisible ==
  BuiltView =>
    /\ Visible(ViewFilter, Indicator(I1, {}))
    /\ \A d \in store : d.object_marking_refs = {} => Visible(ViewFilter, d)

\* a view built after the open-group list grew and a marking was created
C3_Witness ==
  /\ BuiltView
  /\ STATEMENT \in OsList(store)
  /\ TlpPlus(store) # {}
  /\ Visible(ViewFilter, Indicator(I1, {}))

\* C4: a PII-marked identity is not matched by the view of a user whose
\* org chart does not hold that identity, whatever else it is marked with.
C4_PiiOnlyOwnOrg ==
  BuiltView =>
    \A x \in {U1, U2, O1, O2} :
      \A M \in MarkSets(store) :
        (PII \in M /\ x \notin OrgChart(store, last.user_id))
        => ~Visible(ViewFilter, Identity(x, "organization", M))

\* C5: an object with one open-group marking and one restrictive marking
\* that is not granted to the user is not matched by the user's view.
C5_OnlyOpenGroup ==
  BuiltView =>
    \A os \in OsList(store) :
      \A r \in MarkIds(store) \ (OsList(store) \cup {PII}) :
        (\A m \in TlpPlus(store) :
           m.id = r =>
             Range(m.distribution_refs) \cap Above(store, {last.user_id}) = {})
        => ~Visible(ViewFilter, Indicator(I1, {os, r}))

---------------------------------------------------------------------------
(* Properties of the view cache of get_id_markings (Spec)                  *)

NoDuplicates(seq) == Cardinality(Range(seq)) = Len(seq)

\* the views of a user over an index, whatever their day
ViewsOf(al, user_id, index_alias) ==
  {a \in al : a.name.user = user_id /\ a.name.index = index_alias}

\* C12: once the view of (user, index, day) exists, it stays for the day,
\* and a call for that user and index on that day returns its name and
\* issues no deletion, no traversal and no view creation.
C12_CacheReuse ==
  [][/\ \A a \in aliases : a.name.date = day' => a \in aliases'
     /\ (/\ last'.op = "get_id_markings"
         /\ \E a \in ViewsOf(aliases, last'.user_id, last'.index) :
              a.name.date = day)
        => /\ last'.ret = "alias"
           /\ last'.name \in {a.name : a \in aliases}
           /\ last'.name.date = day
           /\ last'.steps = {}
           /\ aliases' = aliases]_vars

\* a second call of the day, made after a marking was created
C12_Witness ==
  /\ last.op = "get_id_markings"
  /\ last.ret = "alias"
  /\ last.steps = {}
  /\ TlpPlus(store) # {}
  /\ \E a \in aliases : a.name = last.name

\* C13: at most one view exists per user and index, and after a call that
\* returned a name it is the view of that name, of the day of the call:
\* the view of an earlier day is gone.
C13_DayRollover ==
  /\ \A u \in PolicyUsers : Cardinality(ViewsOf(aliases, u, "intel")) <= 1
  /\ (last.op = "get_id_markings" /\ last.ret = "alias")
     => /\ last.name.date = day
        /\ {a.name : a \in ViewsOf(aliases, last.user_id, last.index)}
             = {last.name}

\* a call on a following day that removed the view of the day before
C13_Witness ==
  /\ last.op = "get_id_markings"
  /\ last.built
  /\ day > 0
  /\ \E a \in last.removed : a.name.date < day

\* C30: the view whose name a get_id_markings call has returned exists,
\* whatever the other call for the same user, index and day does meanwhile.
C30_ReturnedNameValid ==
  \A p \in Callers :
    (calls[p].pc = "done" /\ calls[p].ret = "alias")
    => \E a \in aliases : a.name = calls[p].name

\* the filter a build for the user would give on this store
Fresh(st, user_id) ==
  ValidRefs(st, user_id, Found(st, OS_GROUP).object_refs,
            OrgMolecule(st, user_id).objs)

\* C26: while the day lasts, the view of a user that exists keeps its
\* filter through every write and every call, and a view that is built has
\* the filter of the store as it is at the build.
C26_NoIntraDayFreshness ==
  [][/\ \A a \in aliases :
          (a.name.date = day /\ day' = day)
          => \E b \in aliases' : b.name = a.name /\ b.filter = a.filter
     /\ (last'.op = "get_id_markings" /\ last'.built)
        => /\ \A a \in aliases : a.name # last'.name
           /\ \E b \in aliases' :
                /\ b.name = last'.name
                /\ b.filter = Fresh(store, last'.user_id)]_vars

\* a call of the day that returned a view whose filter is no longer the one
\* a build would give
C26_Witness ==
  /\ last.op = "get_id_markings"
  /\ last.ret = "alias"
  /\ ~last.built
  /\ last.name.date = day
  /\ \E a \in aliases :
       a.name = last.name /\ a.filter # Fresh(store, last.user_id)

\* C35: every document get_objects returns to a user is matched by the
\* filter of the user's view.
C35_RetrievalRespectsView ==
  (last.op = "get_objects" /\ last.ok)
  => \A i \in DOMAIN last.docs :
       Visible(Fresh(store, last.user_id), last.docs[i])

\* C19: when two calls for the same user, index and day both missed the
\* alias and both have returned, both returned the same name, and one view
\* of the user exists: it has that name and the filter one of them built.
C19_RaceTolerated ==
  \A p \in Callers : \A q \in Callers \ {p} :
    (/\ calls[p].pc = "done" /\ calls[q].pc = "done"
     /\ calls[p].missed /\ calls[q].missed
     /\ calls[p].user_id = calls[q].user_id
     /\ calls[p].index = calls[q].index)
    => /\ calls[p].ret = "alias" /\ calls[q].ret = "alias"
       /\ calls[p].name = calls[q].name
       /\ \E a \in aliases :
            /\ ViewsOf(aliases, calls[p].user_id, calls[p].index) = {a}
            /\ a.name = calls[p].name
            /\ a.filter \in {calls[p].filter, calls[q].filter}

\* both calls missed and built different filters (the org chart was
\* written in between); the view carries the filter of one of them
C19_Witness ==
  /\ calls["a"].pc = "done" /\ calls["b"].pc = "done"
  /\ calls["a"].missed /\ calls["b"].missed
  /\ calls["a"].user_id = U1 /\ calls["b"].user_id = U1
  /\ calls["a"].filter # calls["b"].filter
  /\ FilterOf(aliases, calls["a"].name) = calls["b"].filter

\* C17: a call returns False exactly when the 'org' traversal seeded with
\* the user's id yields no objects, and then the user has no view.
C17_OrgChartUnresolved ==
  last.op = "get_id_markings" =>
    /\ last.ret = "False" <=> OrgChart(store, last.user_id) = {}
    /\ last.ret = "False" => ViewsOf(aliases, last.user_id, last.index) = {}

\* the call of a user that no stored document is or refers to
C17_Witness ==
  /\ last.op = "get_id_markings"
  /\ last.ret = "False"
  /\ ~Exists(store, last.user_id)
  /\ "get_molecule" \in last.steps
  /\ "put_alias" \notin last.steps

---------------------------------------------------------------------------
(* Properties of set_new_osdm (Spec)                                       *)

\* the reference list of the open-group object, in its stored order
OsRefs(st) == Found(st, OS_GROUP).object_refs

\* C18: the open-group list never holds an entry twice and only grows at
\* its end; a call that returns True leaves its id in the list, and a call
\* with an id that is in the list writes nothing.
C18_IdempotentAppend ==
  [][/\ NoDuplicates(OsRefs(store'))
     /\ Len(OsRefs(store)) <= Len(OsRefs(store'))
     /\ SubSeq(OsRefs(store'), 1, Len(OsRefs(store))) = OsRefs(store)
     /\ last'.op = "set_new_osdm"
        => /\ last'.ret = "True" => last'.stix_id \in Range(OsRefs(store'))
           /\ last'.stix_id \in Range(OsRefs(store))
              => /\ last'.ret = "True"
                 /\ ~last'.wrote
                 /\ store' = store]_vars

\* C31: when two set_new_osdm calls for two different ids have both
\* returned True, the open-group list holds both ids and every id it held
\* at the start.
C31_NoLostUpdate ==
  \A p \in Callers : \A q \in Callers \ {p} :
    (/\ calls[p].pc = "done" /\ calls[q].pc = "done"
     /\ calls[p].ret = "True" /\ calls[q].ret = "True"
     /\ calls[p].stix_id # NoRef /\ calls[q].stix_id # NoRef
     /\ calls[p].stix_id # calls[q].stix_id)
    => {calls[p].stix_id, calls[q].stix_id, TLP_WHITE, TLP_GREEN}
         \subseteq Range(OsRefs(store))

\* the statement marking registered a second time: no write
C18_Witness ==
  /\ last.op = "set_new_osdm"
  /\ last.stix_id = STATEMENT
  /\ last.ret = "True"
  /\ ~last.wrote
  /\ OsRefs(store) = <<TLP_WHITE, TLP_GREEN, STATEMENT>>

---------------------------------------------------------------------------
(* Traversal properties of get_molecule (SpecMolecule)                     *)

\* the documents the searches of the call just made could see
LastScope ==
  SearchScope(store, aliases, AliasName(last.user_id, "intel", day), last.md)

\* one expansion of a set of ids under the schema: the ids and references
\* of every schema object that is in the set or refers into it
Expand(scope, schema_name, S) ==
  S \cup UNION {SourceValues(d) :
                  d \in RoundHits(scope, S, Range(get_schema(schema_name)))}

\* the ids reachable from S, and the number of expansions that added ids
RECURSIVE Closure(_, _, _, _)
Closure(scope, schema_name, S, n) ==
  LET T == Expand(scope, schema_name, S)
  IN IF T = S THEN [ids |-> S, growing |-> n]
     ELSE Closure(scope, schema_name, T, n + 1)

Reachable(scope, schema_name, seeds) ==
  Closure(scope, schema_name, Range(seeds), 0)

\* the call just made was get_molecule and its searches ran
MoleculeReturned ==
  last.op = "get_molecule" /\ last.is_str /\ last.kind # "raise"

\* the number of rounds of the call just made in which the id set grew
Grown == Cardinality({i \in 2..Len(last.lens) : last.lens[i] > last.lens[i - 1]})

\* C22: a get_molecule call returns False exactly when its id set grew in
\* more than 3 rounds, returns a result otherwise, and never runs more than
\* 4 rounds.
C22_RoundBudget ==
  MoleculeReturned
  => /\ last.kind = "False" <=> Grown > 3
     /\ Grown <= 3 => last.kind \in {"ids", "objs"}
     /\ Len(last.log) <= 4

\* a chain whose fourth round still adds ids
C22_Witness ==
  /\ MoleculeReturned
  /\ last.kind = "False"
  /\ Grown = 4
  /\ Len(last.log) = 4

\* the traversal of the call just made with every clause of the schema
\* queried in every round
EveryClause ==
  Molecule(LastScope, last.stix_ids, last.schema_name, FALSE, {}, TRUE)

\* C23: with pivot off the call returns the id set of the traversal that
\* queries every clause in every round (and fails when that one fails), and
\* every round after a growing one searches a clause.
C23_SkipIsOptimization ==
  (MoleculeReturned /\ ~last.pivot)
  => /\ last.kind = "False" <=> EveryClause.kind = "False"
     /\ last.ids = EveryClause.ids
     /\ \A i \in DOMAIN last.log : last.log[i] # {}

\* C32: the round after which a call returns a result added no id to the
\* set of ids, whatever the seed list.
C32_TerminalRoundAddsNothing ==
  (MoleculeReturned /\ last.kind \in {"ids", "objs"})
  => last.lens[Len(last.lens)] = last.lens[Len(last.lens) - 1]

\* C6: in ids-only mode, when the reachable set is complete after at most
\* 4 growing rounds, the call returns exactly the reachable id set and
\* not a failure.
C6_FixpointCorrect ==
  (/\ MoleculeReturned
   /\ ~last.want_objs
   /\ NoDuplicates(last.stix_ids)
   /\ Reachable(LastScope, last.schema_name, last.stix_ids).growing <= 4)
  => /\ last.kind = "ids"
     /\ last.ids = Reachable(LastScope, last.schema_name, last.stix_ids).ids

\* C7: every call ends, and a call over a graph that needs more than 4
\* growing rounds returns False, never an id set or objects.
C7_BoundedTermination ==
  MoleculeReturned =>
    /\ last.kind \in {"False", "ids", "objs"}
    /\ (/\ NoDuplicates(last.stix_ids)
        /\ Reachable(LastScope, last.schema_name, last.stix_ids).growing > 4)
       => last.kind = "False"

\* C14: with pivot off, a clause whose search found nothing in round 1,
\* while the frontier grew, is not searched in round 2.
C14_ZeroHitClauseSkipped ==
  (MoleculeReturned /\ ~last.pivot /\ Len(last.log) >= 2) =>
    \A k \in DOMAIN get_schema(last.schema_name) :
      RoundHits(LastScope, Range(last.stix_ids),
                {get_schema(last.schema_name)[k]}) = {}
      => k \notin last.log[2]

\* C15: a call with an empty seed list returns a failure, issues no
\* search and returns no ids and no objects.
C15_EmptySeedFails ==
  (MoleculeReturned /\ last.stix_ids = <<>>) =>
    /\ last.kind = "False"
    /\ last.log = <<>>
    /\ last.ids = {}
    /\ last.objs = {}

\* C16: a call whose schema name is not a string returns False with no
\* search issued and no view looked up, created or deleted.
C16_BadSchemaName ==
  [][(last'.op = "get_molecule" /\ ~last'.is_str)
     => /\ last'.kind = "False"
        /\ last'.log = <<>>
        /\ ~last'.view_call
        /\ aliases' = aliases]_vars

\* such a call with the policy check on, for a user whose view is not built
C16_Witness ==
  /\ last.op = "get_molecule"
  /\ ~last.is_str
  /\ last.md
  /\ last.kind = "False"
  /\ ViewsOf(aliases, last.user_id, "intel") = {}
  /\ \E d \in store : d.id = Link(1)

\* the org-chart example: U1 part-of O1 and O1 part-of O2 are stored, and
\* the call was an ids-only traversal of 'org' seeded with U1, pivot on
OrgExample ==
  /\ MoleculeReturned
  /\ OrgEdges \subseteq store
  /\ last.stix_ids = <<U1>>
  /\ last.schema_name = "org"
  /\ last.pivot
  /\ ~last.want_objs

\* C20 (as stated): the call of the org-chart example returns exactly the
\* ids of the user and the two organisations.
C20_OrgChartExample ==
  OrgExample => last.kind = "ids" /\ last.ids = {U1, O1, O2}

\* C20 (amended): the call of the org-chart example reaches O1 in round 1
\* and O2 in round 2, is stable in round 3, and returns the ids of the
\* user, the two organisations and the two part-of relationships.
C20_OrgChartWithEdges ==
  OrgExample =>
    /\ last.kind = "ids"
    /\ last.ids = {U1, O1, O2} \cup {e.id : e \in OrgEdges}
    /\ Len(last.log) = 3
    /\ last.failed = 2
    /\ O1 \in Expand(LastScope, "org", {U1})
    /\ O2 \notin Expand(LastScope, "org", {U1})
    /\ O2 \in Expand(LastScope, "org", Expand(LastScope, "org", {U1}))

\* the example's call made through the user's view
C20_Witness ==
  /\ OrgExample
  /\ last.md
  /\ last.kind = "ids"
  /\ O2 \in last.ids

\* C25: every object a call in objs mode returns has its id in the final id
\* set, satisfies the schema and the caller's extra filter and, with the
\* policy check on, is visible to the user; the extra filter leaves the
\* expansion rounds as they are without it.
C25_HydratedResult ==
  (MoleculeReturned /\ last.kind = "objs")
  => /\ \A d \in last.objs :
          /\ d.id \in last.ids
          /\ \E c \in Range(get_schema(last.schema_name)) : ClauseMatch(c, d)
          /\ QueryMatch(last.query, d)
          /\ d \in LastScope
     /\ last.ids = Molecule(LastScope, last.stix_ids, last.schema_name, FALSE,
                            {}, last.pivot).ids

---------------------------------------------------------------------------
(* Properties of the policy build over a chain (SpecView)                  *)

\* the most requests of one call: 3 before the traversal, a search in each
\* of its rounds and its final search, and 3 after it
MaxRequests == 3 + (MaxFailed + 1) + 1 + 3

\* C24: a get_id_markings call enters get_id_markings once, itself, and
\* sends a bounded number of requests to the store.
C24_NoReentry ==
  last.op = "get_id_markings"
  => /\ last.entered = 1
     /\ last.requests <= MaxRequests

\* C28: a get_id_markings call that returns False leaves every view of its
\* user and index, those of earlier days included, as it was.
C28_FailedBuildKeepsView ==
  [][(last'.op = "get_id_markings" /\ last'.ret = "False")
     => \A a \in ViewsOf(aliases, last'.user_id, last'.index) :
          a \in aliases']_vars

\* C29: a search with the policy check on whose view was not resolved
\* returns a failure to its caller and sends no query to the store.
C29_FailClosedSearch ==
  (last.op = "search" /\ last.md /\ last.view # "alias")
  => /\ last.ret = "False"
     /\ ~last.issued

\* a view built after a traversal of four rounds
C24_Witness ==
  /\ last.op = "get_id_markings"
  /\ last.built
  /\ last.entered = 1
  /\ last.requests = MaxRequests

---------------------------------------------------------------------------
(* Properties of get_objects and store_objects (SpecOrg)                   *)

\* C21: a batch with at least one stored id returns the documents of its
\* stored ids, those of the missing ids left out, and not a failure.
C21_MissingOmitted ==
  (/\ last.op = "get_objects"
   /\ \E i \in DOMAIN last.obj_ids : Exists(store, last.obj_ids[i]))
  => /\ last.ok
     /\ Range(last.docs) = {d \in store : d.id \in Range(last.obj_ids)}

\* C27: store_objects on a list returns True exactly when no write was
\* rejected; the objects before the rejected write are stored, the rejected
\* one and those after it leave the store as it was.
C27_StoreListStops ==
  [][last'.op = "store_objects"
     => LET objects == last'.objects
            rej == last'.rej
            reached == IF rej \in DOMAIN objects THEN rej - 1 ELSE Len(objects)
        IN /\ last'.ret <=> rej \notin DOMAIN objects
           /\ \A i \in 1..reached : objects[i] \in store'
           /\ \A i \in (reached + 1)..Len(objects) :
                \A d \in store' \ store : d.id # objects[i].id]_vars

\* a list of two whose second write was rejected: the first is stored
C27_Witness ==
  /\ last.op = "store_objects"
  /\ Len(last.objects) = 2
  /\ last.rej = 2
  /\ ~last.ret
  /\ last.objects[1] \in store
  /\ ~Exists(store, last.objects[2].id)

---------------------------------------------------------------------------
(* Properties of set_tlpplus (SpecMarking)                                 *)

TlpPlusCall == last.op = "set_tlpplus" /\ last.ret \in {"id", "created"}

\* the stored tlp-plus markings of a base classification whose list is a
\* reordering of refs
MarkingsFor(st, tlp, refs) ==
  {d \in TlpPlus(st) :
     /\ d.tlp_marking_def_ref = tlp
     /\ Len(d.distribution_refs) = Len(refs)
     /\ Range(d.distribution_refs) = Range(refs)}

\* C8: a call with a duplicate-free list returns the id of the marking
\* stored for the same base classification and any reordering of the list,
\* and no second marking definition exists for that distribution set.
C8_OrderIndependent ==
  (TlpPlusCall /\ NoDuplicates(last.refs)) =>
    /\ \A d \in MarkingsFor(store, last.tlp, last.refs) : d.id = last.md_id
    /\ Cardinality(MarkingsFor(store, last.tlp, last.refs)) <= 1

\* sorted(): 'identity--...' sorts before 'marking-definition--...', ids of
\* one type by uuid
IdLess(a, b) ==
  \/ IdType(a) = "identity" /\ IdType(b) = "marking-definition"
  \/ IdType(a) = IdType(b) /\ IdUuid(a) < IdUuid(b)

RECURSIVE Sorted(_)
Sorted(S) ==
  IF S = {} THEN <<>>
  ELSE LET least == CHOOSE x \in S : \A y \in S \ {x} : IdLess(x, y)
       IN <<least>> \o Sorted(S \ {least})

\* C9: the marking a call stores has as distribution_refs the sorted,
\* de-duplicated list with the base classification's id included.
C9_StoredRefsSorted ==
  (last.op = "set_tlpplus" /\ last.ret = "created") =>
    Found(store, last.md_id).distribution_refs
      = Sorted(Range(last.refs) \cup {last.tlp})

\* C33: the marking whose id a call returns has the base classification
\* of the call: a call with TLP RED does not return the id of the marking
\* created for the same list with TLP AMBER.
C33_NoClassificationCollision ==
  TlpPlusCall
  => /\ Exists(store, last.md_id)
     /\ Found(store, last.md_id).tlp_marking_def_ref = last.tlp

\* C34: a call leaves the caller's list as it was handed in, and the same
\* call made again with that list derives the id the call returned.
C34_CallerListUnchanged ==
  TlpPlusCall
  => /\ last.caller_list = last.refs
     /\ MdId(last.tlp, last.caller_list) = last.md_id

\* the arguments of a set_tlpplus call are the ones the call accepts
ValidArguments(call) ==
  /\ IdType(call.user_id) = "identity"
  /\ call.is_list
  /\ call.tlp \in {TLP_AMBER, TLP_RED}

\* C10: a call whose derived id is already stored returns that id and
\* writes nothing: the store is the same after the call.
C10_ExistingUnchanged ==
  [][(/\ last'.op = "set_tlpplus"
      /\ ValidArguments(last')
      /\ Exists(store, MdId(last'.tlp, last'.refs)))
     => /\ last'.ret = "id"
        /\ last'.md_id = MdId(last'.tlp, last'.refs)
        /\ ~last'.wrote
        /\ store' = store]_vars

\* C11: a call with a base classification other than AMBER and RED, with
\* a distribution argument that is not a list, or with a user id that is
\* not an identity returns False, writes nothing, and leaves the store and
\* the caller's list as they were.
C11_InvalidRejected ==
  [][(last'.op = "set_tlpplus" /\ ~ValidArguments(last'))
     => /\ last'.ret = "False"
        /\ ~last'.wrote
        /\ store' = store
        /\ last'.caller_list = last'.refs]_vars

\* a call whose distribution argument is not a list was rejected, markings
\* being stored
C11_Witness ==
  /\ last.op = "set_tlpplus"
  /\ last.ret = "False"
  /\ ~last.is_list
  /\ last.caller_list = last.refs
  /\ TlpPlus(store) # {}

\* a call by another user than the one that created the marking
C10_Witness ==
  /\ last.op = "set_tlpplus"
  /\ ValidArguments(last)
  /\ last.ret = "id"
  /\ Found(store, last.md_id).created_by_ref # last.user_id

====
